---------------------------- MODULE Spec2Model ----------------------------
(***************************************************************************)
(* Model of createKernelAccount (kernel smart account construction, init   *)
(* code, plugin-enable signature, signing and call-data encoding).         *)
(*                                                                         *)
(* Values:                                                                 *)
(*  - an Address / string that the code compares letter by letter is a     *)
(*    sequence of one-character strings ("0x" prefix left out);            *)
(*    the empty sequence stands for `undefined`;                           *)
(*  - a Hex byte string is a record [fn, args]: Raw(x) for bytes given by  *)
(*    the caller or the chain, Encode(f, args) for encodeFunctionData,     *)
(*    ConcatHex(parts), Undefined for a missing optional, Throw(msg) for a *)
(*    thrown Error (rejected promise);                                     *)
(*  - a validator (KernelPlugin) is named by an id; "none" is `undefined`. *)
(***************************************************************************)
EXTENDS Integers, Sequences, FiniteSets, TLC

----------------------------------------------------------------------------
(* Bounds of the model *)

\* longest batch handed to encodeCallData
MaxBatch == 2

----------------------------------------------------------------------------
(* Hex values *)

Raw(x) == [fn |-> "raw", args |-> <<x>>]
Undefined == [fn |-> "undefined", args |-> <<>>]
Throw(msg) == [fn |-> "throw", args |-> <<msg>>]
\* viem encodeFunctionData({abi, functionName, args})
Encode(f, a) == [fn |-> f, args |-> a]
\* viem concatHex([...])
ConcatHex(parts) == [fn |-> "concat", args |-> parts]

IsThrow(h) == h.fn = "throw"
\* JS truthiness of an optional Hex option: `if (initCode)`
Truthy(h) == h.fn # "undefined"
\* equality of two Hex values (tags first, so that unlike shapes are never compared)
SameHex(a, b) == a.fn = b.fn /\ a.args = b.args

----------------------------------------------------------------------------
(* Addresses *)

NoAddress == << >>

\* String.prototype.toLowerCase on one character
LowerChar(c) ==
    CASE c = "A" -> "a"
      [] c = "B" -> "b"
      [] c = "C" -> "c"
      [] c = "D" -> "d"
      [] c = "E" -> "e"
      [] c = "F" -> "f"
      [] OTHER -> c

\* String.prototype.toLowerCase
toLowerCase(s) == [i \in 1..Len(s) |-> LowerChar(s[i])]

\* two spellings of the same 20-byte address
SameAddress(a, b) == toLowerCase(a) = toLowerCase(b)

\* default addresses of the kernel smart account
ACCOUNT_V2_3_LOGIC == <<"D", "3">>
FACTORY_ADDRESS == <<"5", "d">>
ENTRYPOINT_V0_6 == <<"5", "F">>

\* spellings of account addresses used by callers and returned by the chain:
\* lower case, EIP-55 mixed case, upper case, and a second address
AddrLower == <<"a", "b">>
AddrMixed == <<"a", "B">>
AddrUpper == <<"A", "B">>
AddrOther == <<"c", "1">>


----------------------------------------------------------------------------
(* The validator capability (KernelPlugin) and the chain, as the account    *)
(* code uses them.  Each use is logged as a call record.                    *)

NoValidator == "none"
Validators == {"dv", "pl"}

\* KernelPlugin.address
ValidatorAddress(v) == IF v = "dv" THEN <<"d", "0">> ELSE <<"e", "0">>
\* KernelPlugin.signer.address
SignerAddress(v) == IF v = "dv" THEN <<"d", "9">> ELSE <<"e", "9">>

\* a logged call: who was called, what with, and what it answered
Call(callee, method, a, ret) ==
    [to |-> callee, method |-> method, args |-> a, ret |-> ret]

\* bytes the validators and the chain hand back
EnableDataValues == {Raw("enable1"), Raw("enable2")}
PluginEnableData == Raw("pluginEnable")
UserOperations == {"op1", "op2"}
\* a message is a string, or { raw: Hex }
StringMessage(text) == [isString |-> TRUE, v |-> text]
RawMessage(hex) == [isString |-> FALSE, v |-> hex]
Messages == {StringMessage("hello"), StringMessage("bye"), RawMessage("0xbeef")}
\* typed data: well-formed, or rejected by validateTypedData
TypedDatas == [id : {"td1"}, valid : BOOLEAN]
\* what validator v answers to signUserOperation / getDummySignature /
\* getPluginEnableSignature, and what a signer answers to signMessage
ValidatorSignature(v, userOperation, enableSig) ==
    Encode("userOpSignature", <<v, userOperation, enableSig>>)
ValidatorDummySignature(v, userOperation, enableSig) ==
    Encode("dummySignature", <<v, userOperation, enableSig>>)
ValidatorEnableSignature(v, account, plugin) ==
    Encode("enableSignature", <<v, account, plugin>>)
SignerSignature(signer, digest) == Encode("signature", <<signer, digest>>)
\* viem keccak256 and stringToHex
keccak256(x) == Encode("keccak256", <<x>>)
stringToHex(x) == Encode("utf8", <<x>>)
\* viem hashTypedData
hashTypedData(typedData) == Encode("hashTypedData", <<typedData.id>>)

VARIABLES
    opts,             \* the options createKernelAccount was called with
    enableData,       \* validator -> what its getEnableData() resolves to
    fallback,         \* validator -> what its shouldDelegateViaFallback() returns
    bytecode,         \* chain: code at the account address (eth_getCode)
    chainSender,      \* chain: address the entry point derives from the init code
    domain,           \* chain: eip712Domain() response of the account logic
    phase,            \* "new", "ready" (handle returned) or "failed" (createKernelAccount threw)
    accountAddress,   \* the address the handle resolved at construction
    ctorResult,       \* Undefined, or the Error createKernelAccount threw
    ctorCalls,        \* external calls made by createKernelAccount, in order
    pending,          \* getInitCode call awaiting its bytecode read
    last              \* the last finished operation on the handle

vars == <<opts, enableData, fallback, bytecode, chainSender, domain, phase,
          accountAddress, ctorResult, ctorCalls, pending, last>>

env == <<enableData, fallback, bytecode, chainSender, domain>>
handle == <<opts, phase, accountAddress, ctorResult, ctorCalls>>

\* eth_getCode responses: no code (undefined), "0x", and deployed code
NoCode == << >>
EmptyCode == <<"0", "x">>
DeployedCode == <<"0", "x", "6", "0">>

\* eip712Domain() responses
OnChainDomains ==
    { [fields |-> f, name |-> "Kernel", version |-> v, chainId |-> 1,
       verifyingContract |-> ACCOUNT_V2_3_LOGIC, salt |-> 0, extensions |-> << >>]
        : f \in {"0f"}, v \in {"0.2.3"} }

\* the response at the time the account is constructed
DefaultDomain ==
    [fields |-> "0f", name |-> "Kernel", version |-> "0.2.3", chainId |-> 1,
     verifyingContract |-> ACCOUNT_V2_3_LOGIC, salt |-> 0, extensions |-> << >>]

\* eip712Domain() responses the account logic may give over time
SignDomains ==
    [ fields : {"0f", "1f"},
      name : {"Kernel", "Kernel2"},
      version : {"0.2.3", "0.2.4"},
      chainId : {1, 5},
      verifyingContract : {ACCOUNT_V2_3_LOGIC, AddrOther},
      salt : {0, 1},
      extensions : {<< >>, <<7>>} ]

\* option sets createKernelAccount is called with
OptionSets ==
    [ defaultValidator : {NoValidator, "dv"},
      plugin : {NoValidator, "pl"},
      pluginEnableSignature : {Undefined, Raw("enableSig")},
      entryPoint : {ENTRYPOINT_V0_6},
      index : {0},
      factoryAddress : {FACTORY_ADDRESS},
      accountLogicAddress : {ACCOUNT_V2_3_LOGIC},
      deployedAccountAddress : {NoAddress, AddrLower, AddrMixed},
      initCode : {Undefined, Raw("initCode")} ]

NoOp == [op |-> "none", arg |-> << >>, result |-> Undefined, calls |-> << >>]
NoPending == [active |-> FALSE, code |-> NoCode]

----------------------------------------------------------------------------
(* createKernelAccount *)

\* faulty variant: the default validator takes precedence over the plugin
currentValidatorDefaultFirst ==
    IF opts.defaultValidator # NoValidator THEN opts.defaultValidator ELSE opts.plugin

\* plugin ?? defaultValidator
currentValidator ==
    IF opts.plugin # NoValidator THEN opts.plugin ELSE opts.defaultValidator

getAccountInitCode(owner, index, factoryAddress, accountLogicAddress, validatorAddress, enableDataBytes) ==
    IF owner = NoAddress THEN Throw("Owner account not found")
    ELSE LET initialisationData ==
                 Encode("initialize", <<validatorAddress, enableDataBytes>>)
         IN ConcatHex(<<factoryAddress,
                        Encode("createAccount",
                               <<accountLogicAddress, initialisationData, index>>)>>)

\* faulty variant: the default validator is consulted before the explicit init code
generateInitCodeValidatorFirst ==
    IF opts.defaultValidator # NoValidator
    THEN [result |-> getAccountInitCode(SignerAddress(opts.defaultValidator),
                                        opts.index,
                                        opts.factoryAddress,
                                        opts.accountLogicAddress,
                                        ValidatorAddress(opts.defaultValidator),
                                        enableData[opts.defaultValidator]),
          calls |-> <<Call(opts.defaultValidator, "getEnableData", << >>,
                           enableData[opts.defaultValidator])>>]
    ELSE IF Truthy(opts.initCode)
    THEN [result |-> opts.initCode, calls |-> << >>]
    ELSE [result |-> Throw("No init code or default validator provided"),
          calls |-> << >>]

\* the init-code closure: [result, calls]
generateInitCode ==
    IF Truthy(opts.initCode)
    THEN [result |-> opts.initCode, calls |-> << >>]
    ELSE IF opts.defaultValidator # NoValidator
    THEN [result |-> getAccountInitCode(SignerAddress(opts.defaultValidator),
                                        opts.index,
                                        opts.factoryAddress,
                                        opts.accountLogicAddress,
                                        ValidatorAddress(opts.defaultValidator),
                                        enableData[opts.defaultValidator]),
          calls |-> <<Call(opts.defaultValidator, "getEnableData", << >>,
                           enableData[opts.defaultValidator])>>]
    ELSE [result |-> Throw("No init code or default validator provided"),
          calls |-> << >>]

\* [address, error, calls]: await initCodeProvider(), then getSenderAddress
getAccountAddress ==
    LET gen == generateInitCode
        provider == Call("account", "generateInitCode", << >>, gen.result)
    IN IF IsThrow(gen.result)
       THEN [address |-> NoAddress, error |-> gen.result,
             calls |-> <<provider>> \o gen.calls]
       ELSE [address |-> chainSender, error |-> Undefined,
             calls |-> <<provider>> \o gen.calls \o
                       <<Call("chain", "getSenderAddress",
                              <<gen.result, opts.entryPoint>>, chainSender)>>]

\* faulty variant: the address is derived first and the override applied afterwards
resolveAddressEager ==
    LET derived == getAccountAddress
    IN IF opts.deployedAccountAddress # NoAddress
       THEN [address |-> opts.deployedAccountAddress, error |-> derived.error,
             calls |-> derived.calls]
       ELSE derived

\* deployedAccountAddress ?? getAccountAddress(...)
resolveAddress ==
    IF opts.deployedAccountAddress # NoAddress
    THEN [address |-> opts.deployedAccountAddress, error |-> Undefined,
          calls |-> << >>]
    ELSE getAccountAddress

createKernelAccount ==
    /\ phase = "new"
    /\ IF opts.defaultValidator = NoValidator /\ opts.plugin = NoValidator
       THEN /\ phase' = "failed"
            /\ ctorResult' = Throw("You must provide at least defaultValidator or plugin for the kernel smart account")
            /\ UNCHANGED <<accountAddress, ctorCalls>>
       ELSE LET r == resolveAddress
            IN /\ ctorCalls' = r.calls
               /\ IF IsThrow(r.error)
                  THEN /\ phase' = "failed"
                       /\ ctorResult' = r.error
                       /\ UNCHANGED accountAddress
                  ELSE IF r.address = NoAddress
                  THEN /\ phase' = "failed"
                       /\ ctorResult' = Throw("Account address not found")
                       /\ UNCHANGED accountAddress
                  ELSE /\ phase' = "ready"
                       /\ accountAddress' = r.address
                       /\ UNCHANGED ctorResult
    /\ UNCHANGED <<opts, env, pending, last>>

----------------------------------------------------------------------------
(* Operations of the handle: each yields [result, calls] *)

\* faulty variant: the supplied signature is used only when there is no default validator
getPluginEnableSignatureAskFirst ==
    IF opts.plugin # NoValidator /\ opts.defaultValidator # NoValidator
    THEN LET sig == ValidatorEnableSignature(opts.defaultValidator,
                                             accountAddress, opts.plugin)
         IN [result |-> sig,
             calls |-> <<Call(opts.defaultValidator, "getPluginEnableSignature",
                              <<accountAddress, opts.plugin>>, sig)>>]
    ELSE IF Truthy(opts.pluginEnableSignature)
    THEN [result |-> opts.pluginEnableSignature, calls |-> << >>]
    ELSE [result |-> Undefined, calls |-> << >>]

getPluginEnableSignature ==
    IF Truthy(opts.pluginEnableSignature)
    THEN [result |-> opts.pluginEnableSignature, calls |-> << >>]
    ELSE IF opts.plugin # NoValidator /\ opts.defaultValidator # NoValidator
    THEN LET sig == ValidatorEnableSignature(opts.defaultValidator,
                                             accountAddress, opts.plugin)
         IN [result |-> sig,
             calls |-> <<Call(opts.defaultValidator, "getPluginEnableSignature",
                              <<accountAddress, opts.plugin>>, sig)>>]
    ELSE [result |-> Undefined, calls |-> << >>]

signUserOperation(userOperation) ==
    LET pluginEnableSignature == getPluginEnableSignature
        sig == ValidatorSignature(currentValidator, userOperation,
                                  pluginEnableSignature.result)
    IN [result |-> sig,
        calls |-> pluginEnableSignature.calls \o
                  <<Call(currentValidator, "signUserOperation",
                         <<userOperation, pluginEnableSignature.result>>, sig)>>]

getDummySignature(userOperation) ==
    LET pluginEnableSignature == getPluginEnableSignature
        sig == ValidatorDummySignature(currentValidator, userOperation,
                                       pluginEnableSignature.result)
    IN [result |-> sig,
        calls |-> pluginEnableSignature.calls \o
                  <<Call(currentValidator, "getDummySignature",
                         <<userOperation, pluginEnableSignature.result>>, sig)>>]

\* faulty variant: the bare "0x" prefix counts as code
hasCodeOrPrefix(contractCode) == Len(contractCode) >= 2

\* (contractCode?.length ?? 0) > 2, on the code read by getBytecode
hasCode(contractCode) == Len(contractCode) > 2

EmptyHex == Raw("0x")

\* getInitCode after its bytecode read returned contractCode
getInitCode(contractCode) ==
    LET read == Call("chain", "getBytecode", <<accountAddress>>, contractCode)
    IN IF hasCode(contractCode)
       THEN [result |-> EmptyHex, calls |-> <<read>>]
       ELSE LET gen == generateInitCode
            IN [result |-> gen.result, calls |-> <<read>> \o gen.calls]

\* faulty variant: the separator is built on the decoded verifyingContract
signHashedMessageDecodedContract(validator, account, messageHash) ==
    LET decoded == domain
        encoded == Encode("abiParameters",
                          <<keccak256(stringToHex("EIP712Domain(string name,string version,uint256 chainId,address verifyingContract)")),
                            keccak256(stringToHex(decoded.name)),
                            keccak256(stringToHex(decoded.version)),
                            decoded.chainId,
                            decoded.verifyingContract>>)
        domainSeparator == keccak256(encoded)
        digest == keccak256(ConcatHex(<<Raw("0x1901"), domainSeparator, messageHash>>))
        sig == SignerSignature(SignerAddress(validator), digest)
    IN [result |-> sig,
        calls |-> <<Call("chain", "eth_call",
                         <<account.logicAddress, "eip712Domain">>, decoded),
                    Call(validator, "signer.signMessage", <<digest>>, sig)>>]

\* faulty variant: the domain read when the account was constructed is reused
signHashedMessageStaleDomain(validator, account, messageHash) ==
    LET decoded == DefaultDomain
        encoded == Encode("abiParameters",
                          <<keccak256(stringToHex("EIP712Domain(string name,string version,uint256 chainId,address verifyingContract)")),
                            keccak256(stringToHex(decoded.name)),
                            keccak256(stringToHex(decoded.version)),
                            decoded.chainId,
                            account.address>>)
        domainSeparator == keccak256(encoded)
        digest == keccak256(ConcatHex(<<Raw("0x1901"), domainSeparator, messageHash>>))
        sig == SignerSignature(SignerAddress(validator), digest)
    IN [result |-> sig,
        calls |-> <<Call("chain", "eth_call",
                         <<account.logicAddress, "eip712Domain">>, decoded),
                    Call(validator, "signer.signMessage", <<digest>>, sig)>>]

signHashedMessage(validator, account, messageHash) ==
    LET decoded == domain
        encoded == Encode("abiParameters",
                          <<keccak256(stringToHex("EIP712Domain(string name,string version,uint256 chainId,address verifyingContract)")),
                            keccak256(stringToHex(decoded.name)),
                            keccak256(stringToHex(decoded.version)),
                            decoded.chainId,
                            account.address>>)
        domainSeparator == keccak256(encoded)
        digest == keccak256(ConcatHex(<<Raw("0x1901"), domainSeparator, messageHash>>))
        sig == SignerSignature(SignerAddress(validator), digest)
    IN [result |-> sig,
        calls |-> <<Call("chain", "eth_call",
                         <<account.logicAddress, "eip712Domain">>, decoded),
                    Call(validator, "signer.signMessage", <<digest>>, sig)>>]

\* account.signMessage({ message })
signMessage(message) ==
    LET messageHash == IF message.isString
                       THEN keccak256(stringToHex(message.v))
                       ELSE keccak256(Raw(message.v))
    IN signHashedMessage(currentValidator,
                         [address |-> accountAddress,
                          logicAddress |-> opts.accountLogicAddress],
                         messageHash)

\* account.signTypedData(typedData): validateTypedData throws on ill-formed
\* data, before anything is hashed or read
signTypedData(typedData) ==
    IF ~typedData.valid
    THEN [result |-> Throw("validateTypedData"), calls |-> << >>]
    ELSE signHashedMessage(currentValidator,
                           [address |-> accountAddress,
                            logicAddress |-> opts.accountLogicAddress],
                           hashTypedData(typedData))

----------------------------------------------------------------------------
(* encodeCallData *)

NoCallType == "undefined"
CallTypes == {NoCallType, "call", "delegatecall", "delegatecall2000"}

\* a request is [isArray, txs]: one descriptor, or an array of descriptors
Single(tx) == [isArray |-> FALSE, txs |-> <<tx>>]
Batch(txs) == [isArray |-> TRUE, txs |-> txs]

\* faulty variant: only the first element is tested for delegatecall
encodeBatchFirstOnly(txs) ==
    IF Len(txs) > 0 /\ txs[1].callType = "delegatecall"
    THEN [result |-> Throw("Cannot batch delegatecall"), calls |-> << >>]
    ELSE [result |-> Encode("executeBatch",
                            <<[i \in 1..Len(txs) |->
                                  [to |-> txs[i].to, value |-> txs[i].value,
                                   data |-> txs[i].data]]>>),
          calls |-> << >>]

encodeBatch(txs) ==
    IF \E i \in 1..Len(txs) : txs[i].callType = "delegatecall"
    THEN [result |-> Throw("Cannot batch delegatecall"), calls |-> << >>]
    ELSE [result |-> Encode("executeBatch",
                            <<[i \in 1..Len(txs) |->
                                  [to |-> txs[i].to, value |-> txs[i].value,
                                   data |-> txs[i].data]]>>),
          calls |-> << >>]

\* faulty variant: the target is not compared with the account address
isSelfCallAnyTarget(tx) == tx.to = tx.to

\* tx.to.toLowerCase() === accountAddress
isSelfCall(tx) == toLowerCase(tx.to) = accountAddress

encodeSingle(tx) ==
    IF tx.callType = NoCallType \/ tx.callType = "call"
    THEN IF isSelfCall(tx)
         THEN LET ask == <<Call(currentValidator, "shouldDelegateViaFallback",
                                << >>, fallback[currentValidator])>>
              IN IF fallback[currentValidator]
                 THEN [result |-> tx.data, calls |-> ask]
                 ELSE [result |-> Encode("execute", <<tx.to, tx.value, tx.data, 0>>),
                       calls |-> ask]
         ELSE [result |-> Encode("execute", <<tx.to, tx.value, tx.data, 0>>),
               calls |-> << >>]
    ELSE IF tx.callType = "delegatecall"
    THEN [result |-> Encode("executeDelegateCall", <<tx.to, tx.data>>),
          calls |-> << >>]
    ELSE [result |-> Throw("Invalid call type"), calls |-> << >>]

encodeCallData(request) ==
    IF request.isArray THEN encodeBatch(request.txs)
    ELSE encodeSingle(request.txs[1])

\* call descriptors
Descriptors(tos, values, datas) ==
    [to : tos, value : values, data : datas, callType : CallTypes]

SeqsUpTo(S, n) == UNION { [1..k -> S] : k \in 0..n }

\* requests of the life-cycle specification
SmallRequests ==
    { Single(tx) : tx \in Descriptors({AddrLower, AddrMixed, AddrOther}, {0}, {Raw("d1")}) }
      \cup { Batch(<<tx>>) : tx \in Descriptors({AddrOther}, {0}, {Raw("d1")}) }

\* requests of the encoder specification
BatchElements == Descriptors({AddrLower, AddrOther}, {0, 1}, {Raw("d1")})
AllRequests ==
    { Single(tx) : tx \in Descriptors({AddrLower, AddrMixed, AddrUpper, AddrOther},
                                      {0, 1}, {Raw("d1"), Raw("d2")}) }
      \cup { Batch(txs) : txs \in SeqsUpTo(BatchElements, MaxBatch) }

----------------------------------------------------------------------------
(* Actions *)

Finish(op, arg, r) ==
    /\ last' = [op |-> op, arg |-> arg, result |-> r.result, calls |-> r.calls]
    /\ UNCHANGED <<handle, env, pending>>

Ready == phase = "ready" /\ ~pending.active

GenerateInitCode ==
    /\ Ready
    /\ Finish("generateInitCode", << >>, generateInitCode)

GetPluginEnableSignature ==
    /\ Ready
    /\ Finish("getPluginEnableSignature", << >>, getPluginEnableSignature)

SignUserOperation(userOperation) ==
    /\ Ready
    /\ Finish("signUserOperation", <<userOperation>>, signUserOperation(userOperation))

GetDummySignature(userOperation) ==
    /\ Ready
    /\ Finish("getDummySignature", <<userOperation>>, getDummySignature(userOperation))

SignMessage(message) ==
    /\ Ready
    /\ Finish("signMessage", <<message>>, signMessage(message))

SignTypedData(typedData) ==
    /\ Ready
    /\ Finish("signTypedData", <<typedData>>, signTypedData(typedData))

EncodeCallData(request) ==
    /\ Ready
    /\ Finish("encodeCallData", <<request>>, encodeCallData(request))

\* getInitCode up to `await getBytecode(...)`: the chain answers with the
\* code it holds now
GetInitCodeCall ==
    /\ Ready
    /\ pending' = [active |-> TRUE, code |-> bytecode]
    /\ UNCHANGED <<handle, env, last>>

\* getInitCode from the answer of getBytecode to its return
GetInitCodeReturn ==
    /\ phase = "ready"
    /\ pending.active
    /\ LET r == getInitCode(pending.code)
       IN last' = [op |-> "getInitCode", arg |-> <<pending.code>>,
                   result |-> r.result, calls |-> r.calls]
    /\ pending' = NoPending
    /\ UNCHANGED <<handle, env>>

(* The environment *)

\* the account gets deployed (by the first user operation, or by anyone)
Deploy ==
    /\ bytecode # DeployedCode
    /\ bytecode' = DeployedCode
    /\ UNCHANGED <<handle, enableData, fallback, chainSender, domain, pending, last>>

\* the default validator's enable data changes (its owner is rotated)
ChangeEnableData ==
    /\ \E e \in EnableDataValues :
          /\ e # enableData["dv"]
          /\ enableData' = [enableData EXCEPT !["dv"] = e]
    /\ UNCHANGED <<handle, fallback, bytecode, chainSender, domain, pending, last>>

\* the account logic answers eip712Domain() differently (an upgrade, a
\* fork): one field changes at a time
ChangeDomain ==
    /\ \/ \E x \in {"0f", "1f"} \ {domain.fields} :
             domain' = [domain EXCEPT !.fields = x]
       \/ \E x \in {"Kernel", "Kernel2"} \ {domain.name} :
             domain' = [domain EXCEPT !.name = x]
       \/ \E x \in {"0.2.3", "0.2.4"} \ {domain.version} :
             domain' = [domain EXCEPT !.version = x]
       \/ \E x \in {1, 5} \ {domain.chainId} :
             domain' = [domain EXCEPT !.chainId = x]
       \/ \E x \in {ACCOUNT_V2_3_LOGIC, AddrOther} \ {domain.verifyingContract} :
             domain' = [domain EXCEPT !.verifyingContract = x]
       \/ \E x \in {0, 1} \ {domain.salt} :
             domain' = [domain EXCEPT !.salt = x]
       \/ \E x \in {<< >>, <<7>>} \ {domain.extensions} :
             domain' = [domain EXCEPT !.extensions = x]
    /\ domain' \in SignDomains
    /\ UNCHANGED <<handle, enableData, fallback, bytecode, chainSender, pending, last>>

Init ==
    /\ opts \in OptionSets
    /\ enableData = [v \in Validators |->
                        IF v = "dv" THEN Raw("enable1") ELSE PluginEnableData]
    /\ fallback \in [Validators -> BOOLEAN]
    /\ bytecode \in {NoCode, EmptyCode}
    /\ chainSender \in {AddrMixed, NoAddress}
    /\ domain \in OnChainDomains
    /\ phase = "new"
    /\ accountAddress = NoAddress
    /\ ctorResult = Undefined
    /\ ctorCalls = << >>
    /\ pending = NoPending
    /\ last = NoOp

Next ==
    \/ createKernelAccount
    \/ GenerateInitCode
    \/ GetPluginEnableSignature
    \/ \E op \in UserOperations : SignUserOperation(op)
    \/ \E op \in UserOperations : GetDummySignature(op)
    \/ \E m \in Messages : SignMessage(m)
    \/ \E td \in TypedDatas : SignTypedData(td)
    \/ \E request \in SmallRequests : EncodeCallData(request)
    \/ GetInitCodeCall
    \/ GetInitCodeReturn
    \/ Deploy
    \/ ChangeEnableData

Spec == Init /\ [][Next]_vars

\* The encoder alone: handles built from a validator set and an address
\* override, every request shape.
InitEncode ==
    /\ Init
    /\ opts.pluginEnableSignature = Undefined
    /\ opts.initCode = Undefined
    /\ bytecode = NoCode
    /\ chainSender = AddrMixed

\* the caller takes the encoded bytes (or the Error)
TakeResult ==
    /\ last # NoOp
    /\ last' = NoOp
    /\ UNCHANGED <<handle, env, pending>>

\* one request at a time
EncodeRequest(request) ==
    /\ last = NoOp
    /\ EncodeCallData(request)

NextEncode ==
    \/ createKernelAccount
    \/ \E request \in AllRequests : EncodeRequest(request)
    \/ TakeResult

SpecEncode == InitEncode /\ [][NextEncode]_vars

\* Signing alone: handles with a default validator, a chain whose
\* eip712Domain() response changes between signs.
InitSign ==
    /\ Init
    /\ opts.defaultValidator # NoValidator
    /\ opts.pluginEnableSignature = Undefined
    /\ opts.initCode = Undefined
    /\ opts.deployedAccountAddress # AddrMixed
    /\ fallback = [v \in Validators |-> FALSE]
    /\ bytecode = NoCode
    /\ chainSender = AddrMixed
    /\ domain = DefaultDomain

NextSign ==
    \/ createKernelAccount
    \/ \E m \in {StringMessage("hello"), RawMessage("0xbeef")} : SignMessage(m)
    \/ \E td \in TypedDatas : SignTypedData(td)
    \/ ChangeDomain

SpecSign == InitSign /\ [][NextSign]_vars

----------------------------------------------------------------------------
(* Properties of encodeCallData (checked under SpecEncode) *)

IsEncode == last.op = "encodeCallData"
IsSingleEncode == IsEncode /\ ~last.arg[1].isArray
IsBatchEncode == IsEncode /\ last.arg[1].isArray
LastTxs == last.arg[1].txs
LastTx == LastTxs[1]
PlainCall(tx) == tx.callType = NoCallType \/ tx.callType = "call"
Execute(tx) == Encode("execute", <<tx.to, tx.value, tx.data, 0>>)

\* C1: a single call descriptor with callType unset or "call" is returned as
\* its raw data, unwrapped, whenever its target is the account's own 20-byte
\* address (in any letter case of either spelling) and the active validator's
\* shouldDelegateViaFallback() is true; every other unset/"call" descriptor
\* is encoded as execute(to, value, data, 0).
C1_SelfCallReturnsRawData ==
    (IsSingleEncode /\ PlainCall(LastTx)) =>
        IF SameAddress(LastTx.to, accountAddress) /\ fallback[currentValidator]
        THEN SameHex(last.result, LastTx.data)
        ELSE SameHex(last.result, Execute(LastTx))

\* C3: a batch with a delegatecall element at any position fails with
\* "Cannot batch delegatecall"; a batch of plain calls only is encoded as
\* executeBatch of the {to, value, data} triples, same length, same order.
C3_BatchEncoding ==
    IsBatchEncode =>
        /\ (\E i \in 1..Len(LastTxs) : LastTxs[i].callType = "delegatecall")
              => SameHex(last.result, Throw("Cannot batch delegatecall"))
        /\ (\A i \in 1..Len(LastTxs) : PlainCall(LastTxs[i]))
              => /\ last.result.fn = "executeBatch"
                 /\ Len(last.result.args) = 1
                 /\ Len(last.result.args[1]) = Len(LastTxs)
                 /\ \A i \in 1..Len(LastTxs) :
                       last.result.args[1][i] =
                          [to |-> LastTxs[i].to, value |-> LastTxs[i].value,
                           data |-> LastTxs[i].data]

\* a batch of two plain calls to different targets was encoded
C3_Witness ==
    /\ IsBatchEncode
    /\ Len(LastTxs) = 2
    /\ LastTxs[1] # LastTxs[2]
    /\ LastTxs[1].to # LastTxs[2].to
    /\ \A i \in 1..2 : PlainCall(LastTxs[i])
    /\ last.result.fn = "executeBatch"

\* C4: a single descriptor with callType unset or "call" whose target is not
\* the account address is encoded as execute(to, value, data, 0) whatever
\* shouldDelegateViaFallback() returns; a single delegatecall descriptor is
\* encoded as executeDelegateCall(to, data), without its value.
C4_ExecuteAndDelegateCall ==
    IsSingleEncode =>
        /\ (PlainCall(LastTx) /\ ~SameAddress(LastTx.to, accountAddress))
              => SameHex(last.result, Execute(LastTx))
        /\ LastTx.callType = "delegatecall"
              => SameHex(last.result,
                         Encode("executeDelegateCall", <<LastTx.to, LastTx.data>>))

\* a call with value to another address was encoded on a handle whose active
\* validator delegates via fallback
C4_Witness ==
    /\ IsSingleEncode
    /\ PlainCall(LastTx)
    /\ ~SameAddress(LastTx.to, accountAddress)
    /\ fallback[currentValidator]
    /\ LastTx.value = 1
    /\ last.result.fn = "execute"

\* C5: a request carrying a callType other than unset, "call" or
\* "delegatecall", as a single descriptor or as an element of a batch, fails
\* with "Invalid call type".
C5_InvalidCallTypeRejected ==
    (IsEncode /\ \E i \in 1..Len(LastTxs) :
                    LastTxs[i].callType \notin {NoCallType, "call", "delegatecall"})
        => SameHex(last.result, Throw("Invalid call type"))

----------------------------------------------------------------------------
(* Properties of construction and of the handle (checked under Spec) *)

HasDefault == opts.defaultValidator # NoValidator
HasPlugin == opts.plugin # NoValidator
HasOverride == opts.deployedAccountAddress # NoAddress
NoInitCodeError == Throw("No init code or default validator provided")
CountCalls(calls, method) ==
    Cardinality({i \in 1..Len(calls) : calls[i].method = method})

\* C2: with neither an explicit initCode nor a defaultValidator,
\* createKernelAccount fails, also when a plugin and a deployedAccountAddress
\* are supplied; so no constructed handle raises "No init code or default
\* validator provided" from generateInitCode or getInitCode.
C2_MissingInitCodePathFailsAtConstruction ==
    /\ (phase # "new" /\ ~Truthy(opts.initCode) /\ ~HasDefault) => phase = "failed"
    /\ (last.op \in {"generateInitCode", "getInitCode"})
          => ~SameHex(last.result, NoInitCodeError)

\* C6: with a deployedAccountAddress override the handle's address is that
\* override and construction neither invokes the init-code provider (nor the
\* validator's getEnableData) nor derives the address; without one the
\* provider is invoked exactly once, followed by exactly one derivation call
\* with (the init code it returned, entryPoint), whose answer is the address.
C6_AddressResolution ==
    /\ HasOverride => ctorCalls = << >>
    /\ (phase = "ready" /\ HasOverride)
          => accountAddress = opts.deployedAccountAddress
    /\ (phase = "ready" /\ ~HasOverride)
          => LET n == Len(ctorCalls)
             IN /\ n >= 2
                /\ CountCalls(ctorCalls, "generateInitCode") = 1
                /\ CountCalls(ctorCalls, "getSenderAddress") = 1
                /\ ctorCalls[1].method = "generateInitCode"
                /\ ctorCalls[n].method = "getSenderAddress"
                /\ ctorCalls[n].args[1].fn = ctorCalls[1].ret.fn
                /\ ctorCalls[n].args = <<ctorCalls[1].ret, opts.entryPoint>>
                /\ Truthy(opts.initCode) => SameHex(ctorCalls[n].args[1], opts.initCode)
                /\ accountAddress = ctorCalls[n].ret
    /\ (phase = "failed" /\ ~HasOverride /\ (HasDefault \/ HasPlugin))
          => /\ CountCalls(ctorCalls, "generateInitCode") = 1
             /\ ctorCalls[1].method = "generateInitCode"
             /\ CountCalls(ctorCalls, "getSenderAddress") =
                   (IF IsThrow(ctorCalls[1].ret) THEN 0 ELSE 1)

\* a handle was built on an override although a default validator without
\* explicit init code was there to derive the address from
C6_Witness ==
    /\ phase = "ready"
    /\ HasOverride
    /\ HasDefault
    /\ ~Truthy(opts.initCode)
    /\ accountAddress = opts.deployedAccountAddress
    /\ ctorCalls = << >>

\* the outcome [result, calls] of the init-code rule: explicit init code
\* verbatim with no call; else built from the default validator's enable
\* data; else the configuration error
InitCodeRule(result, calls) ==
    IF Truthy(opts.initCode)
    THEN SameHex(result, opts.initCode) /\ calls = << >>
    ELSE IF HasDefault
    THEN /\ Len(calls) = 1
         /\ calls[1].to = opts.defaultValidator
         /\ calls[1].method = "getEnableData"
         /\ calls[1].ret \in EnableDataValues
         /\ SameHex(result,
              ConcatHex(<<opts.factoryAddress,
                          Encode("createAccount",
                                 <<opts.accountLogicAddress,
                                   Encode("initialize",
                                          <<ValidatorAddress(opts.defaultValidator),
                                            calls[1].ret>>),
                                   opts.index>>)>>))
    ELSE SameHex(result, NoInitCodeError) /\ calls = << >>

\* C7: generateInitCode returns the explicit initCode verbatim without
\* calling getEnableData; else, with a defaultValidator, factoryAddress ++
\* createAccount(accountLogicAddress, initialize(defaultValidator.address,
\* enableData), index) with the enable data the defaultValidator (never the
\* plugin) answered; else it fails with "No init code or default validator
\* provided".  The bytes are a function of the options and of that enable
\* data alone, so repeated calls with unchanged enable data agree.
C7_InitCodePriority ==
    last.op = "generateInitCode" => InitCodeRule(last.result, last.calls)

\* explicit init code was returned on a handle that also has a default
\* validator
C7_Witness ==
    /\ last.op = "generateInitCode"
    /\ Truthy(opts.initCode)
    /\ HasDefault
    /\ HasPlugin
    /\ SameHex(last.result, opts.initCode)

SigningMethods ==
    {"signUserOperation", "getDummySignature", "signer.signMessage",
     "shouldDelegateViaFallback"}
EnablingMethods == {"getEnableData", "getPluginEnableSignature"}
MadeCalls == ctorCalls \o last.calls

\* C8: on a handle with a plugin and a defaultValidator, signUserOperation,
\* getDummySignature, message signing and shouldDelegateViaFallback go to
\* the plugin only, getEnableData (init code) and getPluginEnableSignature
\* to the defaultValidator only; with a defaultValidator alone all of them
\* go to the defaultValidator.
C8_ValidatorPrecedence ==
    (phase = "ready" /\ HasDefault) =>
        /\ \A i \in 1..Len(MadeCalls) :
              /\ MadeCalls[i].method \in SigningMethods
                    => MadeCalls[i].to =
                          (IF HasPlugin THEN opts.plugin ELSE opts.defaultValidator)
              /\ MadeCalls[i].method \in EnablingMethods
                    => MadeCalls[i].to = opts.defaultValidator
        /\ last.op = "signUserOperation"
              => CountCalls(last.calls, "signUserOperation") = 1
        /\ last.op = "getDummySignature"
              => CountCalls(last.calls, "getDummySignature") = 1
        /\ last.op = "signMessage"
              => CountCalls(last.calls, "signer.signMessage") = 1
        /\ (last.op = "encodeCallData" /\ last.result.fn = "raw")
              => CountCalls(last.calls, "shouldDelegateViaFallback") = 1

\* a user operation was signed on a handle with both validators: the default
\* validator produced the enable signature, the plugin signed
C8_Witness ==
    /\ phase = "ready"
    /\ HasDefault
    /\ HasPlugin
    /\ last.op = "signUserOperation"
    /\ Len(last.calls) = 2
    /\ last.calls[1].to = opts.defaultValidator
    /\ last.calls[2].to = opts.plugin

\* the outcome [result, calls] of the enable-signature rule
EnableSignatureRule(result, calls) ==
    IF Truthy(opts.pluginEnableSignature)
    THEN SameHex(result, opts.pluginEnableSignature) /\ calls = << >>
    ELSE IF HasPlugin /\ HasDefault
    THEN /\ Len(calls) = 1
         /\ calls[1].to = opts.defaultValidator
         /\ calls[1].method = "getPluginEnableSignature"
         /\ calls[1].args = <<accountAddress, opts.plugin>>
         /\ SameHex(result, calls[1].ret)
    ELSE SameHex(result, Undefined) /\ calls = << >>

\* C9: getPluginEnableSignature returns the supplied pluginEnableSignature
\* without calling a validator; else, with a plugin and a defaultValidator,
\* what defaultValidator.getPluginEnableSignature(accountAddress, plugin)
\* answers; else undefined.  signUserOperation and getDummySignature resolve
\* it by the same rule on each call and pass it, with the user operation, to
\* the active validator, whose answer they return.
C9_EnableSignatureResolution ==
    /\ last.op = "getPluginEnableSignature"
          => EnableSignatureRule(last.result, last.calls)
    /\ last.op \in {"signUserOperation", "getDummySignature"}
          => LET n == Len(last.calls)
                 final == last.calls[n]
             IN /\ n >= 1
                /\ final.method = last.op
                /\ final.to = (IF HasPlugin THEN opts.plugin ELSE opts.defaultValidator)
                /\ Len(final.args) = 2
                /\ final.args[1] = last.arg[1]
                /\ EnableSignatureRule(final.args[2], SubSeq(last.calls, 1, n - 1))
                /\ SameHex(last.result, final.ret)

\* a dummy signature was asked for on a handle with a plugin, a default
\* validator and a supplied enable signature: no validator produced one
C9_Witness ==
    /\ last.op = "getDummySignature"
    /\ HasPlugin
    /\ HasDefault
    /\ Truthy(opts.pluginEnableSignature)
    /\ Len(last.calls) = 1
    /\ SameHex(last.calls[1].args[2], opts.pluginEnableSignature)

\* C10: getInitCode returns "0x" exactly when the bytecode read at the
\* account address at the time of the call is non-empty, and otherwise the
\* outcome of generateInitCode; each call reads the chain anew, so a call
\* issued after deployment returns "0x" and one issued before does not.
C10_StateLazyInitCode ==
    last.op = "getInitCode" =>
        LET code == last.arg[1]
        IN /\ Len(last.calls) >= 1
           /\ last.calls[1].method = "getBytecode"
           /\ last.calls[1].args = <<accountAddress>>
           /\ last.calls[1].ret = code
           /\ SameHex(last.result, EmptyHex) <=> code \notin {NoCode, EmptyCode}
           /\ code \notin {NoCode, EmptyCode} => Len(last.calls) = 1
           /\ code \in {NoCode, EmptyCode}
                 => InitCodeRule(last.result, SubSeq(last.calls, 2, Len(last.calls)))

C10_ReadPerCall ==
    /\ (~pending.active /\ pending'.active) => pending'.code = bytecode
    /\ (last' # last /\ last'.op = "getInitCode")
          => pending.active /\ last'.arg = <<pending.code>>

C10_LazyInitCode == [](C10_StateLazyInitCode) /\ [][C10_ReadPerCall]_vars

\* getInitCode returned "0x" on a handle whose earlier getInitCode, before
\* deployment, could only return init code
C10_Witness ==
    /\ last.op = "getInitCode"
    /\ last.arg[1] = DeployedCode
    /\ bytecode = DeployedCode
    /\ SameHex(last.result, EmptyHex)
    /\ ~Truthy(opts.initCode)

----------------------------------------------------------------------------
(* Properties of message and typed-data signing (checked under SpecSign) *)

IsSignOp(rec) == rec.op \in {"signMessage", "signTypedData"}
\* a sign that got as far as the signer
IsSigned(rec) == IsSignOp(rec) /\ ~IsThrow(rec.result)
ReadDomain(rec) == rec.calls[1].ret
SignedDigest(rec) == rec.calls[2].args[1]
MessageHashOf(rec) ==
    IF rec.op = "signTypedData"
    THEN Encode("hashTypedData", <<rec.arg[1].id>>)
    ELSE IF rec.arg[1].isString
    THEN keccak256(stringToHex(rec.arg[1].v))
    ELSE keccak256(Raw(rec.arg[1].v))

\* keccak256(0x1901 ++ keccak256(abi.encode(typeHash, keccak256(name),
\* keccak256(version), chainId, address)) ++ messageHash)
ExpectedDigest(name, version, chainId, address, messageHash) ==
    keccak256(ConcatHex(<<Raw("0x1901"),
        keccak256(Encode("abiParameters",
            <<keccak256(stringToHex("EIP712Domain(string name,string version,uint256 chainId,address verifyingContract)")),
              keccak256(stringToHex(name)),
              keccak256(stringToHex(version)),
              chainId,
              address>>)),
        messageHash>>))

\* a step in which a handle operation finished as a sign
SignStep == UNCHANGED <<handle, env, pending>> /\ IsSignOp(last')

C11_DigestOfRead ==
    IsSigned(last) =>
        SignedDigest(last) =
            ExpectedDigest(ReadDomain(last).name, ReadDomain(last).version,
                           ReadDomain(last).chainId, accountAddress,
                           MessageHashOf(last))

C11_SameDigest ==
    (/\ SignStep
     /\ IsSigned(last) /\ IsSigned(last')
     /\ last.op = last'.op
     /\ last.arg = last'.arg
     /\ ReadDomain(last).name = ReadDomain(last').name
     /\ ReadDomain(last).version = ReadDomain(last').version
     /\ ReadDomain(last).chainId = ReadDomain(last').chainId)
        => /\ SignedDigest(last') = SignedDigest(last)
           /\ SameHex(last'.result, last.result)

\* C11: the digest handed to the validator's signer is keccak256(0x1901 ++
\* domainSeparator ++ messageHash) with a separator over the decoded name,
\* version and chainId and the handle's own address only; two signs of the
\* same message under eip712Domain() responses that agree on name, version
\* and chainId but differ in fields, verifyingContract, salt or extensions
\* hand the signer the same digest.
C11_DigestIgnoresOtherDomainFields ==
    [](C11_DigestOfRead) /\ [][C11_SameDigest]_vars

\* a message was signed while the chain reported other fields, another
\* verifyingContract, a salt and extensions
C11_Witness ==
    /\ IsSigned(last)
    /\ ReadDomain(last).fields = "1f"
    /\ ReadDomain(last).verifyingContract = AddrOther
    /\ ReadDomain(last).salt = 1
    /\ ReadDomain(last).extensions = <<7>>
    /\ ReadDomain(last).name = DefaultDomain.name
    /\ ReadDomain(last).verifyingContract # accountAddress

C12_ReadThenSign ==
    IsSignOp(last) =>
        IF IsThrow(last.result)
        THEN last.op = "signTypedData" /\ ~last.arg[1].valid /\ last.calls = << >>
        ELSE /\ Len(last.calls) = 2
             /\ last.calls[1].to = "chain"
             /\ last.calls[1].method = "eth_call"
             /\ last.calls[1].args = <<opts.accountLogicAddress, "eip712Domain">>
             /\ last.calls[1].args[1] # accountAddress
             /\ last.calls[2].to =
                   (IF HasPlugin THEN opts.plugin ELSE opts.defaultValidator)
             /\ last.calls[2].method = "signer.signMessage"
             /\ SameHex(last.result, last.calls[2].ret)

C12_FreshRead ==
    (SignStep /\ IsSigned(last'))
        => /\ ReadDomain(last') = domain
           /\ SignedDigest(last') =
                 ExpectedDigest(domain.name, domain.version, domain.chainId,
                                accountAddress, MessageHashOf(last'))

\* C12: the domain is never cached: each signMessage and signTypedData
\* issues its own eip712Domain() read, addressed to the account logic
\* address, and then invokes the active validator's signer exactly once; the
\* read returns what the chain holds at that sign, so after a change of
\* name, version or chainId the next sign of the same message uses the new
\* values.
C12_DomainReadPerSign ==
    [](C12_ReadThenSign) /\ [][C12_FreshRead]_vars

\* a message was signed after name, version and chainId had all changed on
\* chain since the account was constructed
C12_Witness ==
    /\ IsSigned(last)
    /\ ReadDomain(last) = domain
    /\ domain.name # DefaultDomain.name
    /\ domain.version # DefaultDomain.version
    /\ domain.chainId # DefaultDomain.chainId
    /\ HasPlugin

=============================================================================
